---- MODULE Spec2Model ----
(***************************************************************************)
(* A model of regdump.c: the recursive hive walker walk() and the value    *)
(* interpreter in its loop body (type resolution, data materialisation,    *)
(* binary-text detection, rendering).                                      *)
(*                                                                         *)
(* Representation.  TLC integers are 32-bit signed, so C words that do not *)
(* fit are kept in pieces: a 32-bit type code is the record [hi, lo] of    *)
(* its two 16-bit halves, and 32/64-bit data words are the little-endian   *)
(* byte sequences the hive stores; comparison, hexadecimal and decimal     *)
(* formatting are computed on those bytes.  Output text is a sequence of   *)
(* one-character strings.                                                  *)
(***************************************************************************)
EXTENDS Integers, Sequences, FiniteSets, TLC

VARIABLES
  hive,            \* the loaded hive: key cells and subkey-list cells
  only_keys,       \* -k
  only_values,     \* -v
  all_string,      \* -s
  big_data,        \* hive version supports "db" cells
  properties,      \* static BOOL properties      (inside walk)
  driverpackages,  \* static BOOL driverpackages  (inside walk)
  stack,           \* the activation records of walk(), innermost last
  full,            \* the path buffer, one element per written name
  out,             \* the lines written to stdout so far
  reads,           \* the subkey-list slots read so far
  val,             \* the value cell being processed
  res,             \* what the loop body computed for val
  bd               \* the big-data reassembly in progress

vars == <<hive, only_keys, only_values, all_string, big_data, properties,
          driverpackages, stack, full, out, reads, val, res, bd>>

(***************************************************************************)
(* Bounds of the model.                                                    *)
(***************************************************************************)
MaxKeys == 3       \* key cells in a hive
MaxValues == 1     \* values per key
MaxUnits == 5      \* UTF-16 code units of a string value
MaxBinLen == 9     \* bytes of a binary value
MaxSegs == 3       \* segments of a big-data value
MaxRem == 3        \* distance of a big-data size from a segment multiple

(***************************************************************************)
(* Program constants.                                                      *)
(***************************************************************************)
REG_NONE == 0
REG_SZ == 1
REG_EXPAND_SZ == 2
REG_BINARY == 3
REG_DWORD == 4
REG_LINK == 6
REG_MULTI_SZ == 7
REG_QWORD == 11

DEVPROP_TYPE_INT16 == 4
DEVPROP_TYPE_UINT16 == 5
DEVPROP_TYPE_INT32 == 6
DEVPROP_TYPE_UINT32 == 7
DEVPROP_TYPE_INT64 == 8
DEVPROP_TYPE_UINT64 == 9
DEVPROP_TYPE_FILETIME == 16
DEVPROP_TYPE_BOOLEAN == 17
DEVPROP_TYPE_STRING == 18
DEVPROP_TYPE_STRING_LIST == 8210      \* 0x2000 | DEVPROP_TYPE_STRING
DEVPROP_TYPE_STRING_INDIRECT == 25    \* 0x19

HIGH16 == 65535                       \* the high word of 0xFFFF0000
SEGMENT == 16344                      \* bytes of one big-data segment

\* 126227808000000000 and 157784544000000000, as decimal digits.
FILETIME_2001 == <<1,2,6,2,2,7,8,0,8,0,0,0,0,0,0,0,0,0>>
FILETIME_2101 == <<1,5,7,7,8,4,5,4,4,0,0,0,0,0,0,0,0,0>>

(***************************************************************************)
(* Words as byte sequences.                                                *)
(***************************************************************************)
Byte == 0..255

Reverse(s) == [i \in 1..Len(s) |-> s[Len(s) + 1 - i]]

AllZero(s) == \A i \in 1..Len(s) : s[i] = 0

\* Long division of a big-endian digit sequence in base `base` by d:
\* <<quotient digits, remainder>>.
RECURSIVE DivDigits(_, _, _, _, _)
DivDigits(be, base, d, rem, acc) ==
  IF be = <<>> THEN <<acc, rem>>
  ELSE LET cur == rem * base + Head(be)
       IN DivDigits(Tail(be), base, d, cur % d, Append(acc, cur \div d))

\* The digits in base `to` (most significant first, no leading zeros) of the
\* number whose big-endian digits in base `from` are be.
RECURSIVE Rebase(_, _, _)
Rebase(be, from, to) ==
  IF AllZero(be) THEN <<>>
  ELSE LET qr == DivDigits(be, from, to, 0, <<>>)
       IN Append(Rebase(qr[1], from, to), qr[2])

PadLeft(s, n) == [i \in 1..(n - Len(s)) |-> 0] \o s

\* The 8 little-endian bytes of an int64_t literal given in decimal.
Int64Literal(dec) == Reverse(PadLeft(Rebase(dec, 10, 256), 8))

\* An int64_t read from little-endian bytes is negative iff bit 63 is set.
IsNegative(le) == le[Len(le)] >= 128

RECURSIVE LexLess(_, _)
LexLess(a, b) ==
  IF a = <<>> THEN FALSE
  ELSE IF Head(a) # Head(b) THEN Head(a) < Head(b)
  ELSE LexLess(Tail(a), Tail(b))

\* a < b for two signed words of the same width (little-endian bytes).
SignedLess(a, b) ==
  IF IsNegative(a) # IsNegative(b) THEN IsNegative(a)
  ELSE LexLess(Reverse(a), Reverse(b))

\* Two's complement negation of a little-endian word.
RECURSIVE AddOne(_)
AddOne(le) ==
  IF le = <<>> THEN <<>>
  ELSE IF Head(le) = 255 THEN <<0>> \o AddOne(Tail(le))
  ELSE <<Head(le) + 1>> \o Tail(le)

Negate(le) == AddOne([i \in 1..Len(le) |-> 255 - le[i]])

(***************************************************************************)
(* printf conversions.                                                     *)
(***************************************************************************)
AsciiTable ==
  <<" ", "!", "\"", "#", "$", "%", "&", "'", "(", ")", "*", "+", ",", "-",
    ".", "/", "0", "1", "2", "3", "4", "5", "6", "7", "8", "9", ":", ";",
    "<", "=", ">", "?", "@", "A", "B", "C", "D", "E", "F", "G", "H", "I",
    "J", "K", "L", "M", "N", "O", "P", "Q", "R", "S", "T", "U", "V", "W",
    "X", "Y", "Z", "[", "\\", "]", "^", "_", "{grave}", "a", "b", "c", "d", "e",
    "f", "g", "h", "i", "j", "k", "l", "m", "n", "o", "p", "q", "r", "s",
    "t", "u", "v", "w", "x", "y", "z", "{", "|", "}", "~">>

\* (code 96, the grave accent, cannot be written in a TLA+ string and is
\* named instead)

\* c >= 32 && c < 127
IsPrint(c) == c >= 32 /\ c < 127

\* putchar(c) for a printable c
Chr(c) == AsciiTable[c - 31]

HexDigit == <<"0","1","2","3","4","5","6","7","8","9","A","B","C","D","E","F">>

DecDigit == <<"0","1","2","3","4","5","6","7","8","9">>

Digits(ds, table) == [i \in 1..Len(ds) |-> table[ds[i] + 1]]

\* "%X" of an unsigned little-endian word
FmtX(le) ==
  LET ds == Rebase(Reverse(le), 256, 16)
  IN IF ds = <<>> THEN <<"0">> ELSE Digits(ds, HexDigit)

\* "%u" of an unsigned little-endian word
FmtU(le) ==
  LET ds == Rebase(Reverse(le), 256, 10)
  IN IF ds = <<>> THEN <<"0">> ELSE Digits(ds, DecDigit)

\* "%d" of a signed little-endian word
FmtD(le) == IF IsNegative(le) THEN <<"-">> \o FmtU(Negate(le)) ELSE FmtU(le)

\* "%02X" of a byte
Fmt02X(b) == <<HexDigit[(b \div 16) + 1], HexDigit[(b % 16) + 1]>>

\* "<%0*X>" of a 16-bit unit, width 2 below 0x100 and 4 otherwise
FmtEsc(u) ==
  <<"<">> \o (IF u < 256 THEN Fmt02X(u)
              ELSE Fmt02X(u \div 256) \o Fmt02X(u % 256)) \o <<">">>

\* comma-separated "%02X" of bytes 0..size-1
RECURSIVE FmtBytes(_, _, _)
FmtBytes(data, i, size) ==
  IF i >= size THEN <<>>
  ELSE (IF i > 0 THEN <<",">> ELSE <<>>) \o Fmt02X(data[i + 1])
       \o FmtBytes(data, i + 1, size)

(***************************************************************************)
(* Value cells.  A value cell is [value_type, inline, size, offset,        *)
(* region]: inline is bit 31 of the size field and size its other 31 bits; *)
(* offset is the four bytes of the offset field, and region the bytes the  *)
(* offset field points at (past the 4-byte cell header).                   *)
(***************************************************************************)
Std(t) == [hi |-> 0, lo |-> t]

DevProp(t) == [hi |-> HIGH16, lo |-> t]

\* us[i], the i-th 16-bit unit of little-endian data (i from 0)
Unit(data, i) == data[2 * i + 1] + 256 * data[2 * i + 2]

\* The data pointer of a value that is not reassembled: the offset field itself
\* when bit 31 of the size is set, the pointed-at region otherwise.
DataOf(v) == IF v.inline THEN v.offset ELSE v.region

\* The switch with INT32/UINT32 numbered 4 and 5.
ResolveTypeShifted(type, props, drv) ==
  IF props /\ type.hi = HIGH16
  THEN CASE type.lo \in {DEVPROP_TYPE_INT16, DEVPROP_TYPE_UINT16}
              -> Std(REG_DWORD)
         [] type.lo \in {DEVPROP_TYPE_INT64, DEVPROP_TYPE_UINT64,
                         DEVPROP_TYPE_FILETIME}
              -> Std(REG_QWORD)
         [] type.lo \in {DEVPROP_TYPE_STRING, DEVPROP_TYPE_STRING_INDIRECT}
              -> Std(REG_SZ)
         [] type.lo = DEVPROP_TYPE_STRING_LIST
              -> Std(REG_MULTI_SZ)
         [] OTHER -> type
  ELSE IF drv THEN Std(type.lo)
  ELSE type

\* The switch followed by the mask, with no "else" between them.
ResolveTypeBoth(type, props, drv) ==
  LET t == IF props /\ type.hi = HIGH16
           THEN CASE type.lo \in {DEVPROP_TYPE_INT32, DEVPROP_TYPE_UINT32}
                       -> Std(REG_DWORD)
                  [] type.lo \in {DEVPROP_TYPE_INT64, DEVPROP_TYPE_UINT64,
                                  DEVPROP_TYPE_FILETIME}
                       -> Std(REG_QWORD)
                  [] type.lo \in {DEVPROP_TYPE_STRING,
                                  DEVPROP_TYPE_STRING_INDIRECT}
                       -> Std(REG_SZ)
                  [] type.lo = DEVPROP_TYPE_STRING_LIST
                       -> Std(REG_MULTI_SZ)
                  [] OTHER -> type
           ELSE type
  IN IF drv THEN Std(t.lo) ELSE t

\* The effective type: the device-property switch under "Properties", the low
\* word under "DriverPackages", the raw type otherwise.
ResolveType(type, props, drv) ==
  IF props /\ type.hi = HIGH16
  THEN CASE type.lo \in {DEVPROP_TYPE_INT32, DEVPROP_TYPE_UINT32}
              -> Std(REG_DWORD)
         [] type.lo \in {DEVPROP_TYPE_INT64, DEVPROP_TYPE_UINT64,
                         DEVPROP_TYPE_FILETIME}
              -> Std(REG_QWORD)
         [] type.lo \in {DEVPROP_TYPE_STRING, DEVPROP_TYPE_STRING_INDIRECT}
              -> Std(REG_SZ)
         [] type.lo = DEVPROP_TYPE_STRING_LIST
              -> Std(REG_MULTI_SZ)
         [] OTHER -> type
  ELSE IF drv THEN Std(type.lo)
  ELSE type

\* ascii * 8 > size * min
ThresholdStrict(ascii, size, min) == ascii * 8 > size * min

\* ascii * 8 >= size * min
Threshold(ascii, size, min) == ascii * 8 >= size * min

\* The number of i in from..to-1 with ok(i)
RECURSIVE CountFrom(_, _, _)
CountFrom(ok(_), i, to) ==
  IF i >= to THEN 0
  ELSE (IF ok(i) THEN 1 ELSE 0) + CountFrom(ok, i + 1, to)

\* The `min` of the UTF-16 branch: ascii * 8 >= size * 6, ascii counted twice
\* per printable unit.
Utf16Min == 6

\* The `min` of the byte branch: ascii * 8 >= size * 7.
AsciiMin == 7

\* "See if binary data is text": 0, 8 or 16.
BinText(type, size, data) ==
  IF (type = Std(REG_BINARY) \/ type = Std(REG_NONE)) /\ size >= 8
  THEN LET UnitOk(i) == IsPrint(Unit(data, i))
           ByteOk(i) == IsPrint(data[i + 1])
           am == IF data[2] = 0 /\ data[4] = 0
                 THEN IF UnitOk(0) /\ UnitOk(1)
                      THEN <<(2 + CountFrom(UnitOk, 2, size \div 2)) * 2,
                             Utf16Min>>
                      ELSE <<0, 8>>
                 ELSE IF ByteOk(0) /\ ByteOk(1)
                      THEN <<2 + CountFrom(ByteOk, 2, size), AsciiMin>>
                      ELSE <<0, 8>>
       IN IF Threshold(am[1], size, am[2])
          THEN (IF data[2] = 0 THEN 16 ELSE 8)
          ELSE 0
  ELSE 0

\* print_time( t, full, brackets ).  The calendar text depends on the local
\* time zone of the run and is kept as one token.
PrintTime(t, fullres, brackets) ==
  (IF brackets THEN <<"[">> ELSE <<>>)
  \o <<"{localtime}">>
  \o (IF fullres
      THEN <<".">> \o Digits(PadLeft(Rebase(<<DivDigits(Rebase(Reverse(t), 256, 10),
                                        10, 10000000, 0, <<>>)[2]>>,
                                        10000000, 10), 7), DecDigit)
      ELSE <<>>)
  \o (IF brackets THEN <<"]", " ">> ELSE <<>>)

\* No trailing null dropped.
StripNullsNone(data, size) == size

\* size after "while (size > 0 && us[size-1] == '\0') --size;"
RECURSIVE StripNulls(_, _)
StripNulls(data, size) ==
  IF size > 0 /\ Unit(data, size - 1) = 0 THEN StripNulls(data, size - 1)
  ELSE size

\* The loop that prints the units i..size-1 of a string.
RECURSIVE PutUnits(_, _, _, _, _, _)
PutUnits(data, i, size, type, bintext, allstr) ==
  IF i >= size THEN <<>>
  ELSE LET u == Unit(data, i)
       IN IF IsPrint(u)
          THEN <<Chr(u)>> \o PutUnits(data, i + 1, size, type, bintext, allstr)
          ELSE IF u = 0 /\ type = Std(REG_MULTI_SZ) /\ i + 1 < size
                  /\ Unit(data, i + 1) # 0
          THEN <<"<", ">">>
               \o PutUnits(data, i + 1, size, type, bintext, allstr)
          ELSE IF u = 0 /\ ~allstr /\ bintext = 0
          THEN <<" ", "<", ".", ".", ".", ">">>
          ELSE FmtEsc(u) \o PutUnits(data, i + 1, size, type, bintext, allstr)

\* The string branch: size /= 2, trailing nulls dropped unless bintext.
PutString(data, size, type, bintext, allstr) ==
  LET half == size \div 2
      n == IF bintext = 0 THEN StripNulls(data, half) ELSE half
  IN PutUnits(data, 0, n, type, bintext, allstr)

\* The bintext == 8 branch.
RECURSIVE PutAscii(_, _, _)
PutAscii(data, i, size) ==
  IF i >= size THEN <<>>
  ELSE (IF IsPrint(data[i + 1]) THEN <<Chr(data[i + 1])>>
        ELSE <<"<">> \o Fmt02X(data[i + 1]) \o <<">">>)
       \o PutAscii(data, i + 1, size)

\* "0x%X (%d)" and "0x%X (%u)"
HexAndDec(word, signed) ==
  <<"0", "x">> \o FmtX(word) \o <<" ", "(">>
  \o (IF signed THEN FmtD(word) ELSE FmtU(word)) \o <<")">>

\* The upper bound taken inclusive.
IsFiletime21Inclusive(q) ==
  /\ ~SignedLess(q, Int64Literal(FILETIME_2001))
  /\ ~SignedLess(Int64Literal(FILETIME_2101), q)

\* *(int64_t*)data >= 126227808000000000 && *(int64_t*)data < 157784544000000000
IsFiletime21(q) ==
  /\ ~SignedLess(q, Int64Literal(FILETIME_2001))
  /\ SignedLess(q, Int64Literal(FILETIME_2101))

\* The if / else-if chain that prints one value: the branch taken (numbered in
\* source order from 1) and the text written before the newline.
Render(type, size, data, bintext, props, allstr, charsigned) ==
  IF type = Std(REG_DWORD) /\ size = 4
  THEN [rule |-> 1, text |-> HexAndDec(SubSeq(data, 1, 4), TRUE)]
  ELSE IF props /\ size = 1 /\ type = DevProp(DEVPROP_TYPE_BOOLEAN)
  THEN [rule |-> 2,
        text |-> IF charsigned /\ data[1] = 255 THEN <<"t", "r", "u", "e">>
                 ELSE IF data[1] = 0 THEN <<"f", "a", "l", "s", "e">>
                 ELSE Fmt02X(data[1])]
  ELSE IF props /\ size = 2 /\ (type = DevProp(DEVPROP_TYPE_UINT16)
                                \/ type = DevProp(DEVPROP_TYPE_INT16))
  THEN [rule |-> 3,
        text |-> IF type.lo = DEVPROP_TYPE_UINT16
                 THEN HexAndDec(SubSeq(data, 1, 2), FALSE)
                 ELSE <<"0", "x">> \o FmtX(SubSeq(data, 1, 2)) \o <<" ", "(">>
                      \o FmtD(SubSeq(data, 1, 2)) \o <<")">>]
  ELSE IF size = 8
          /\ (type = Std(REG_QWORD) \/ type = Std(REG_BINARY)
              \/ type = Std(REG_NONE))
          /\ IsFiletime21(SubSeq(data, 1, 8))
  THEN [rule |-> 4,
        text |-> PrintTime(SubSeq(data, 1, 8), FALSE, FALSE)
                 \o (IF type = Std(REG_QWORD)
                     THEN <<" ", "(", "0", "x">> \o FmtX(SubSeq(data, 1, 8))
                          \o <<";", " ">> \o FmtD(SubSeq(data, 1, 8)) \o <<")">>
                     ELSE <<" ", "(">> \o FmtBytes(data, 0, size) \o <<")">>)]
  ELSE IF type = Std(REG_QWORD) /\ size = 8
  THEN [rule |-> 5, text |-> HexAndDec(SubSeq(data, 1, 8), TRUE)]
  ELSE IF type = Std(REG_SZ) \/ type = Std(REG_MULTI_SZ)
          \/ type = Std(REG_EXPAND_SZ) \/ type = Std(REG_LINK) \/ bintext = 16
  THEN [rule |-> 6, text |-> PutString(data, size, type, bintext, allstr)]
  ELSE IF bintext # 0
  THEN [rule |-> 7, text |-> PutAscii(data, 0, size)]
  ELSE [rule |-> 8, text |-> FmtBytes(data, 0, size)]

\* "*data == -1" is written for a plain char that is signed, as it is on the
\* x86 targets of the source.
CharIsSigned == TRUE

\* One iteration of the value loop for a value that is not reassembled.
Interpret(v, props, drv, allstr, charsigned) ==
  LET data == DataOf(v)
      type == ResolveType(v.value_type, props, drv)
      bintext == BinText(type, v.size, data)
      r == Render(type, v.size, data, bintext, props, allstr, charsigned)
  IN [type |-> type, bintext |-> bintext, rule |-> r.rule, text |-> r.text]

(***************************************************************************)
(* The hive.  hive = [major_version, minor_version, root_cell_offset,      *)
(* keys, lists]: keys maps a cell offset to a key cell [name, len,         *)
(* value_count, values, subkeys] and lists maps a cell offset to a         *)
(* subkey-list cell [block_type, count, offsets], offsets being the 4-byte *)
(* slots that follow the count.  Key names are compressed printable ASCII, *)
(* which make_name copies literally, and the key's values stand in place   *)
(* of its value list.  Key timestamps and the -h/-t/-T formatting of a     *)
(* line are left out: a line is [kind, key, path, text].                   *)
(***************************************************************************)
\* big_data = (regf->major_version > 1 || regf->minor_version > 3)
BigDataSupport(major, minor) == major > 1 \/ minor > 3

\* A cell that is no key of the hive: what a wrong offset would find.
GarbageKey == [name |-> "?", len |-> 1, value_count |-> 0, values |-> <<>>,
               subkeys |-> -1]

GarbageList == [block_type |-> <<"?", "?">>, count |-> 0, offsets |-> <<>>]

\* (key_block*)(offset + root)
KeyAt(h, off) == IF off \in DOMAIN h.keys THEN h.keys[off] ELSE GarbageKey

\* (list_block*)(offset + root)
ListAt(h, off) == IF off \in DOMAIN h.lists THEN h.lists[off] ELSE GarbageList

\* item->offsets[s]
Slot(item, s) == IF s + 1 \in DOMAIN item.offsets THEN item.offsets[s + 1] ELSE 0

\* make_name of a compressed printable name
MakeName(name) == name

\* The strides exchanged.
StrideSwapped(block_type) == IF block_type[2] = "i" THEN 2 ELSE 1

\* ii = (block_type[1] == 'i') ? 1 : 2
Stride(block_type) == IF block_type[2] = "i" THEN 1 ELSE 2

\* The name compared whether or not the flag is set.
ActivatesAgain(active, key, name, len) == key.len = len /\ key.name = name

\* key->len == len && memcmp( name, key->name, key->len ) == 0, tried only
\* while the flag is not set
Activates(active, key, name, len) ==
  ~active /\ key.len = len /\ key.name = name

\* empty_key not forced FALSE by -k.
EmptyOnEntryCounted(keysonly, key) == key.value_count = 0

\* empty_key on reaching the value loop or, with -k, the children
EmptyOnEntry(keysonly, key) ==
  IF keysonly THEN FALSE ELSE key.value_count = 0

\* The subkey count not looked at.
EmptyAfterListKeep(empty, item) == empty

\* if (item->count) empty_key = FALSE;
EmptyAfterList(empty, item) == IF item.count # 0 THEN FALSE ELSE empty

\* The next child of the loop at (i, j) over item: [i, j, list, slot, via_ri],
\* or [i |-> -1] when the loop is over.  A list whose tag starts with 'l' is
\* a leaf; any other is taken to hold offsets of leaf lists.
RECURSIVE NextChild(_, _, _, _)
NextChild(h, item, i, j) ==
  IF i >= item.count THEN [i |-> -1]
  ELSE IF item.block_type[1] = "l"
  THEN [i |-> i, j |-> 0, list |-> item, index |-> i,
        slot |-> i * Stride(item.block_type), via_ri |-> FALSE]
  ELSE LET subitem == ListAt(h, Slot(item, i))
       IN IF j < subitem.count
          THEN [i |-> i, j |-> j, list |-> subitem, index |-> j,
                slot |-> j * Stride(subitem.block_type), via_ri |-> TRUE]
          ELSE NextChild(h, item, i + 1, 0)

Top == stack[Len(stack)]

SetTop(f) == [stack EXCEPT ![Len(stack)] = f]

NewFrame(key, path) ==
  [key |-> key, path |-> path, o |-> 0, i |-> 0, j |-> 0,
   leave_key |-> "NULL", empty_key |-> FALSE, pc |-> "enter"]

NoValue == [value_type |-> Std(REG_NONE), inline |-> FALSE, size |-> 0,
            offset |-> <<0, 0, 0, 0>>, region |-> <<>>, name |-> "{none}"]

NoRes == [type |-> Std(REG_NONE), bintext |-> 0, rule |-> 0, text |-> <<>>]

NoBd == [pc |-> "idle", tag |-> <<"?", "?">>, count |-> 0, alloc |-> 0,
         left |-> 0, dst |-> 0, i |-> 0, copies |-> <<>>]

(***************************************************************************)
(* walk(): the entry of a call, up to the value loop.                      *)
(***************************************************************************)
Enter ==
  /\ stack # <<>>
  /\ Top.pc = "enter"
  /\ LET f == Top
         key == KeyAt(hive, f.key)
         p == Activates(properties, key, "Properties", 10)
         d == Activates(driverpackages, key, "DriverPackages", 14)
         empty == EmptyOnEntry(only_keys, key)
     IN /\ full' = SubSeq(full, 1, f.path) \o <<MakeName(key.name)>>
        /\ IF only_keys
           THEN /\ out' = Append(out, [kind |-> "key", key |-> f.key,
                                       path |-> full', text |-> <<>>])
                /\ stack' = SetTop([f EXCEPT !.path = f.path + 1,
                                             !.empty_key = empty,
                                             !.pc = "children"])
                /\ UNCHANGED <<properties, driverpackages>>
           ELSE /\ out' = out
                /\ properties' = (properties \/ p)
                /\ driverpackages' = (driverpackages \/ d)
                /\ stack' = SetTop([f EXCEPT
                      !.path = f.path + 1,
                      !.leave_key = IF d THEN "driverpackages"
                                    ELSE IF p THEN "properties" ELSE "NULL",
                      !.empty_key = empty,
                      !.pc = IF key.value_count > 0 THEN "values"
                             ELSE "children"])
  /\ UNCHANGED <<hive, only_keys, only_values, all_string, big_data, reads,
                 val, res, bd>>

(***************************************************************************)
(* One iteration of the value loop.                                        *)
(***************************************************************************)
Value ==
  /\ stack # <<>>
  /\ Top.pc = "values"
  /\ LET f == Top
         key == KeyAt(hive, f.key)
         v == key.values[f.o + 1]
         r == Interpret(v, properties, driverpackages, all_string,
                        CharIsSigned)
     IN /\ full' = SubSeq(full, 1, f.path)
                   \o <<IF v.name = "" THEN "@" ELSE MakeName(v.name)>>
        /\ val' = v
        /\ res' = r
        /\ out' = Append(out, [kind |-> "value", key |-> f.key,
                               path |-> full', text |-> r.text])
        /\ stack' = SetTop([f EXCEPT
              !.o = f.o + 1,
              !.pc = IF f.o + 1 < key.value_count THEN "values"
                     ELSE "children"])
  /\ UNCHANGED <<hive, only_keys, only_values, all_string, big_data,
                 properties, driverpackages, reads, bd>>

(***************************************************************************)
(* children: the subkey list is looked up.                                 *)
(***************************************************************************)
Children ==
  /\ stack # <<>>
  /\ Top.pc = "children"
  /\ LET f == Top
         key == KeyAt(hive, f.key)
     IN stack' = SetTop([f EXCEPT
          !.empty_key = IF key.subkeys # -1
                        THEN EmptyAfterList(f.empty_key,
                                            ListAt(hive, key.subkeys))
                        ELSE f.empty_key,
          !.i = 0, !.j = 0, !.pc = "loop"])
  /\ UNCHANGED <<hive, only_keys, only_values, all_string, big_data,
                 properties, driverpackages, full, out, reads, val, res, bd>>

\* The list the child loop of the top call runs over.
ItemOf(f) ==
  LET key == KeyAt(hive, f.key)
  IN IF key.subkeys # -1 THEN ListAt(hive, key.subkeys) ELSE GarbageList

(***************************************************************************)
(* The recursive call on the next child.                                   *)
(***************************************************************************)
Descend ==
  /\ stack # <<>>
  /\ Top.pc = "loop"
  /\ LET f == Top
         nc == NextChild(hive, ItemOf(f), f.i, f.j)
     IN /\ nc.i # -1
        /\ reads' = Append(reads, [block_type |-> nc.list.block_type,
                                   index |-> nc.index, slot |-> nc.slot,
                                   got |-> Slot(nc.list, nc.slot),
                                   via_ri |-> nc.via_ri])
        /\ stack' = Append(SetTop([f EXCEPT
                               !.i = IF nc.via_ri THEN nc.i ELSE nc.i + 1,
                               !.j = IF nc.via_ri THEN nc.j + 1 ELSE 0]),
                           NewFrame(Slot(nc.list, nc.slot), f.path))
  /\ UNCHANGED <<hive, only_keys, only_values, all_string, big_data,
                 properties, driverpackages, full, out, val, res, bd>>

(***************************************************************************)
(* The end of a call: the empty-key line, the flag this call set, return.  *)
(***************************************************************************)
Leave ==
  /\ stack # <<>>
  /\ Top.pc = "loop"
  /\ LET f == Top
     IN /\ NextChild(hive, ItemOf(f), f.i, f.j).i = -1
        /\ out' = IF f.empty_key /\ ~only_values
                  THEN Append(out, [kind |-> "empty", key |-> f.key,
                                    path |-> full, text |-> <<>>])
                  ELSE out
        /\ properties' = IF f.leave_key = "properties" THEN FALSE
                         ELSE properties
        /\ driverpackages' = IF f.leave_key = "driverpackages" THEN FALSE
                             ELSE driverpackages
        /\ stack' = SubSeq(stack, 1, Len(stack) - 1)
  /\ UNCHANGED <<hive, only_keys, only_values, all_string, big_data, full,
                 reads, val, res, bd>>

(***************************************************************************)
(* The value loop body on its own: val is interpreted under the flags.     *)
(***************************************************************************)
InterpretValue ==
  /\ stack = <<>>
  /\ bd.pc = "idle"
  /\ val # NoValue
  /\ res = NoRes
  /\ res' = Interpret(val, properties, driverpackages, all_string,
                      CharIsSigned)
  /\ UNCHANGED <<hive, only_keys, only_values, all_string, big_data,
                 properties, driverpackages, stack, full, out, reads, val, bd>>

(***************************************************************************)
(* Big-data reassembly.  bd = [pc, tag, count, alloc, left, dst, i,        *)
(* copies]: tag and count are read from the cell the value's offset points *)
(* at, alloc is the size given to malloc, dst is data - data_block, and    *)
(* copies lists the memcpy calls made, each [dst, len, seg].               *)
(***************************************************************************)
\* size > 16344 && big_data && *data == 'd' && data[1] == 'b', bit 31 clear
BigEligible(v, tag, bigdata) ==
  ~v.inline /\ v.size > SEGMENT /\ bigdata /\ tag = <<"d", "b">>

\* A whole segment copied every time.
CopyLenWhole(left) == SEGMENT

\* (left > 16344) ? 16344 : left
CopyLen(left) == IF left > SEGMENT THEN SEGMENT ELSE left

\* The data pointer is chosen; a big value gets its buffer.
BigStart ==
  /\ bd.pc = "start"
  /\ bd' = IF BigEligible(val, bd.tag, big_data)
           THEN [bd EXCEPT !.pc = "copy", !.alloc = val.size,
                           !.left = val.size, !.dst = 0, !.i = 0]
           ELSE [bd EXCEPT !.pc = "direct"]
  /\ UNCHANGED <<hive, only_keys, only_values, all_string, big_data,
                 properties, driverpackages, stack, full, out, reads, val, res>>

\* One iteration of the segment loop.  A negative length is a huge size_t:
\* the copy runs off the buffer and the process faults.
BigCopy ==
  /\ bd.pc = "copy"
  /\ bd.i < bd.count
  /\ bd' = IF CopyLen(bd.left) < 0
           THEN [bd EXCEPT !.pc = "fault"]
           ELSE [bd EXCEPT
                   !.copies = Append(bd.copies,
                                     [dst |-> bd.dst, len |-> CopyLen(bd.left),
                                      seg |-> bd.i]),
                   !.dst = bd.dst + SEGMENT,
                   !.left = bd.left - SEGMENT,
                   !.i = bd.i + 1]
  /\ UNCHANGED <<hive, only_keys, only_values, all_string, big_data,
                 properties, driverpackages, stack, full, out, reads, val, res>>

\* The loop ends: data = data_block.
BigEnd ==
  /\ bd.pc = "copy"
  /\ bd.i >= bd.count
  /\ bd' = [bd EXCEPT !.pc = "done", !.dst = 0]
  /\ UNCHANGED <<hive, only_keys, only_values, all_string, big_data,
                 properties, driverpackages, stack, full, out, reads, val, res>>

(***************************************************************************)
(* The hives walked.  A hive of n keys is laid out from a tree (parent[k]  *)
(* < k, key 1 the root), a name per key, value counts, and the kind of     *)
(* subkey list the hive uses: an "li" cell holds one offset per subkey, an *)
(* "lf"/"lh" cell an (offset, hash) pair per subkey, an "ri" cell the      *)
(* offsets of leaf cells.                                                  *)
(***************************************************************************)
KeyOff(k) == k

ListOff(k) == 100 + k

SubListOff(k, idx) == 200 + 10 * k + idx

HashOf(k) == 7000 + k

KeyNames == {<<"Properties", 10>>, <<"DriverPackages", 14>>, <<"Other", 5>>}

LeafTags == {<<"l", "f">>, <<"l", "h">>, <<"l", "i">>}

\* top: the tag of a key's list; sub: the tag of the leaves under "ri";
\* split: one leaf per subkey under "ri", or one leaf for all; emptylist: a
\* key without subkeys has a list of count 0, or the offset -1.
ListStyles ==
  {[top |-> t, sub |-> t, split |-> FALSE, emptylist |-> FALSE] :
     t \in LeafTags}
  \cup {[top |-> <<"l", "f">>, sub |-> <<"l", "f">>, split |-> FALSE,
         emptylist |-> TRUE]}
  \cup {[top |-> <<"r", "i">>, sub |-> sb[1], split |-> sb[2],
         emptylist |-> FALSE] :
          sb \in {<<<<"l", "f">>, FALSE>>, <<<<"l", "i">>, FALSE>>,
                  <<<<"l", "h">>, TRUE>>, <<<<"l", "i">>, TRUE>>}}

Trees(n) == {p \in [2..n -> 1..n] : \A k \in 2..n : p[k] < k}

KidsOf(n, p, k) ==
  SelectSeq([i \in 1..n |-> i], LAMBDA j : j > 1 /\ p[j] = k)

\* The values of every key: default-named inline device INT32 values and
\* named driver-package strings, in turn.
ProbeValue(o) ==
  IF o % 2 = 0
  THEN [value_type |-> DevProp(DEVPROP_TYPE_INT32), inline |-> TRUE,
        size |-> 4, offset |-> <<42, 0, 0, 0>>, region |-> <<>>, name |-> ""]
  ELSE [value_type |-> [hi |-> 1, lo |-> REG_SZ], inline |-> FALSE,
        size |-> 4, offset |-> <<0, 0, 0, 0>>, region |-> <<65, 0, 0, 0>>,
        name |-> "v"]

LeafCell(tag, kids) ==
  [block_type |-> tag, count |-> Len(kids),
   offsets |-> IF tag[2] = "i"
               THEN [i \in 1..Len(kids) |-> KeyOff(kids[i])]
               ELSE [i \in 1..2 * Len(kids) |->
                       IF i % 2 = 1 THEN KeyOff(kids[(i + 1) \div 2])
                       ELSE HashOf(kids[i \div 2])]]

\* The list cells of key k.
ListsOf(k, kids, style) ==
  IF kids = <<>>
  THEN IF style.emptylist THEN ListOff(k) :> LeafCell(<<"l", "f">>, <<>>)
       ELSE <<>>
  ELSE IF style.top # <<"r", "i">>
  THEN ListOff(k) :> LeafCell(style.top, kids)
  ELSE IF style.split
  THEN (ListOff(k) :> [block_type |-> style.top, count |-> Len(kids),
                       offsets |-> [i \in 1..Len(kids) |->
                                      SubListOff(k, i - 1)]])
       @@ [off \in {SubListOff(k, i - 1) : i \in 1..Len(kids)} |->
             LeafCell(style.sub, <<kids[off - SubListOff(k, 0) + 1]>>)]
  ELSE (ListOff(k) :> [block_type |-> style.top, count |-> 1,
                       offsets |-> <<SubListOff(k, 0)>>])
       @@ (SubListOff(k, 0) :> LeafCell(style.sub, kids))

RECURSIVE AllLists(_, _, _, _)
AllLists(n, p, style, k) ==
  IF k > n THEN <<>>
  ELSE ListsOf(k, KidsOf(n, p, k), style) @@ AllLists(n, p, style, k + 1)

\* value_count of key k: the counts 0..MaxValues in turn from key to key,
\* starting at m
ValueCountOf(k, m) == (k + m) % (MaxValues + 1)

BuildHive(n, p, names, m, style) ==
  [major_version |-> 1, minor_version |-> 5, root_cell_offset |-> KeyOff(1),
   keys |-> [k \in 1..n |->
               [name |-> names[k][1], len |-> names[k][2],
                value_count |-> ValueCountOf(k, m),
                values |-> [o \in 1..ValueCountOf(k, m) |-> ProbeValue(o - 1)],
                subkeys |-> IF KidsOf(n, p, k) = <<>> /\ ~style.emptylist
                            THEN -1
                            ELSE ListOff(k)]],
   lists |-> AllLists(n, p, style, 1)]

NoHive == [major_version |-> 1, minor_version |-> 5, root_cell_offset |-> 0,
           keys |-> <<>>, lists |-> <<>>]

InitWalk ==
  /\ \E n \in 1..MaxKeys :
       \E p \in Trees(n), names \in [1..n -> KeyNames], m \in {0, 1},
          style \in ListStyles :
         hive = BuildHive(n, p, names, m, style)
  /\ only_keys \in BOOLEAN
  /\ only_values \in BOOLEAN
  /\ all_string = FALSE
  /\ big_data = BigDataSupport(hive.major_version, hive.minor_version)
  /\ properties = FALSE
  /\ driverpackages = FALSE
  /\ stack = <<NewFrame(hive.root_cell_offset, 0)>>
  /\ full = <<>>
  /\ out = <<>>
  /\ reads = <<>>
  /\ val = NoValue
  /\ res = NoRes
  /\ bd = NoBd

NextWalk == Enter \/ Value \/ Children \/ Descend \/ Leave

SpecWalk == InitWalk /\ [][NextWalk]_vars

(***************************************************************************)
(* The values interpreted on their own.                                    *)
(***************************************************************************)
Cell(type, inline, size, data) ==
  [value_type |-> type, inline |-> inline, size |-> size,
   offset |-> IF inline THEN data ELSE <<0, 0, 0, 0>>,
   region |-> IF inline THEN <<>> ELSE data, name |-> ""]

\* The bytes of a sequence of 16-bit units
UnitBytes(units) ==
  [i \in 1..2 * Len(units) |->
     IF i % 2 = 1 THEN units[(i + 1) \div 2] % 256 ELSE units[i \div 2] \div 256]

SeqsUpTo(S, lo, hi) == UNION {[1..n -> S] : n \in lo..hi}

\* Strings over NUL, "A" and "B"
StringValues ==
  {Cell(t, FALSE, 2 * Len(u), UnitBytes(u)) :
     t \in {Std(REG_SZ), Std(REG_MULTI_SZ)},
     u \in SeqsUpTo({0, 65, 66}, 0, MaxUnits)}

\* Binary data over the bytes 0 and "A", 8 bytes and more
BinaryValues ==
  {Cell(t, FALSE, Len(d), d) :
     t \in {Std(REG_BINARY), Std(REG_NONE), [hi |-> 1, lo |-> REG_BINARY]},
     d \in SeqsUpTo({0, 65}, 8, MaxBinLen)}

Pred(le) == Negate(AddOne(Negate(le)))

\* 8-byte words at and around the FILETIME bounds, two of them text
TickSamples ==
  {Int64Literal(FILETIME_2001), Pred(Int64Literal(FILETIME_2001)),
   AddOne(Int64Literal(FILETIME_2001)),
   Int64Literal(FILETIME_2101), Pred(Int64Literal(FILETIME_2101)),
   AddOne(Int64Literal(FILETIME_2101)),
   <<65, 65, 65, 65, 65, 65, 32, 2>>, <<65, 0, 65, 0, 65, 0, 32, 2>>,
   <<65, 65, 65, 65, 65, 65, 32, 3>>, <<65, 0, 65, 0, 65, 0, 32, 3>>,
   <<0, 0, 0, 0, 0, 0, 0, 0>>, <<1, 0, 0, 0, 0, 0, 0, 0>>,
   <<0, 192, 157, 200, 133, 115, 192, 129>>,
   <<255, 255, 255, 255, 255, 255, 255, 255>>}

FiletimeValues ==
  {Cell(t, FALSE, 8, d) :
     t \in {Std(REG_QWORD), Std(REG_BINARY), Std(REG_NONE), Std(REG_SZ),
            DevProp(DEVPROP_TYPE_FILETIME), DevProp(DEVPROP_TYPE_INT64),
            [hi |-> 1, lo |-> REG_QWORD]},
     d \in TickSamples}

RawTypes ==
  {[hi |-> h, lo |-> l] :
     h \in {0, 1, HIGH16},
     l \in {REG_NONE, REG_SZ, REG_EXPAND_SZ, REG_BINARY, REG_DWORD, 5,
            REG_LINK, REG_MULTI_SZ, REG_QWORD, DEVPROP_TYPE_INT64,
            DEVPROP_TYPE_UINT64, DEVPROP_TYPE_FILETIME, DEVPROP_TYPE_BOOLEAN,
            DEVPROP_TYPE_STRING, DEVPROP_TYPE_STRING_INDIRECT,
            DEVPROP_TYPE_STRING_LIST}}

SmallData ==
  {<<1, <<0, 0, 0, 0>>>>, <<1, <<255, 0, 0, 0>>>>, <<1, <<7, 0, 0, 0>>>>,
   <<2, <<255, 255, 0, 0>>>>, <<2, <<65, 0, 0, 0>>>>,
   <<4, <<255, 255, 255, 255>>>>, <<4, <<65, 0, 0, 0>>>>,
   <<4, <<0, 1, 0, 128>>>>}

TypedValues ==
  {Cell(t, i, sd[1], sd[2]) : t \in RawTypes, i \in BOOLEAN, sd \in SmallData}

Values == StringValues \cup BinaryValues \cup FiletimeValues \cup TypedValues

InitValue ==
  /\ hive = NoHive
  /\ only_keys = FALSE
  /\ only_values = FALSE
  /\ all_string \in BOOLEAN
  /\ big_data = BigDataSupport(hive.major_version, hive.minor_version)
  /\ properties \in BOOLEAN
  /\ driverpackages \in BOOLEAN
  /\ stack = <<>>
  /\ full = <<>>
  /\ out = <<>>
  /\ reads = <<>>
  /\ val \in Values
  /\ res = NoRes
  /\ bd = NoBd

NextValue == InterpretValue

SpecValue == InitValue /\ [][NextValue]_vars

(***************************************************************************)
(* The values reassembled.                                                 *)
(***************************************************************************)
\* Sizes within MaxRem of a multiple of the segment size, and two that fit
\* one segment
BigSizes ==
  {k * SEGMENT + d : k \in 1..(MaxSegs - 1), d \in 1..MaxRem}
  \cup {k * SEGMENT - d : k \in 2..MaxSegs, d \in 0..(MaxRem - 1)}
  \cup {8, SEGMENT}

Versions == {<<1, 3>>, <<1, 5>>, <<2, 0>>}

InitBig ==
  /\ \E v \in Versions :
       hive = [NoHive EXCEPT !.major_version = v[1], !.minor_version = v[2]]
  /\ only_keys = FALSE
  /\ only_values = FALSE
  /\ all_string = FALSE
  /\ big_data = BigDataSupport(hive.major_version, hive.minor_version)
  /\ properties = FALSE
  /\ driverpackages = FALSE
  /\ stack = <<>>
  /\ full = <<>>
  /\ out = <<>>
  /\ reads = <<>>
  /\ \E s \in BigSizes, i \in BOOLEAN :
       val = [Cell(Std(REG_BINARY), FALSE, s, <<>>) EXCEPT !.inline = i]
  /\ res = NoRes
  /\ \E t \in {<<"d", "b">>, <<"A", "B">>}, n \in 0..(MaxSegs + 1) :
       bd = [NoBd EXCEPT !.pc = "start", !.tag = t, !.count = n]

NextBig == BigStart \/ BigCopy \/ BigEnd

SpecBig == InitBig /\ [][NextBig]_vars

(***************************************************************************)
(* The whole model.                                                        *)
(***************************************************************************)
Init == InitWalk \/ InitValue \/ InitBig

Next == NextWalk \/ NextValue \/ NextBig

Spec == Init /\ [][Next]_vars

(***************************************************************************)
(* Properties of the value interpreter (checked under SpecValue).          *)
(***************************************************************************)
Interpreted == res.rule # 0

ValData == DataOf(val)

\* The 16-bit units of the value's data
ValUnits == [i \in 1..(val.size \div 2) |-> Unit(ValData, i - 1)]

\* units is s1 0 s2 0 ... sk 0 0: k >= 1 non-empty printable strings, each
\* followed by one null, and one more null at the end
IsStringList(units) ==
  /\ Len(units) >= 3
  /\ units[Len(units)] = 0
  /\ units[Len(units) - 1] = 0
  /\ units[1] # 0
  /\ \A i \in 1..(Len(units) - 2) :
       IF units[i] = 0 THEN units[i + 1] # 0 ELSE IsPrint(units[i])

\* The strings of such a list joined by "<>"
RECURSIVE Joined(_, _)
Joined(units, i) ==
  IF i > Len(units) - 2 THEN <<>>
  ELSE (IF units[i] = 0 THEN <<"<", ">">> ELSE <<Chr(units[i])>>)
       \o Joined(units, i + 1)

IsMultiList ==
  /\ Interpreted
  /\ res.type = Std(REG_MULTI_SZ)
  /\ ~val.inline
  /\ val.size = 2 * Len(ValUnits)
  /\ IsStringList(ValUnits)

\* C2, as stated: a MULTI_SZ list of non-empty printable strings, each followed
\* by one null and the list by one more, is written as the strings joined by
\* "<>", followed by " <...>" unless -s is given.
C2_AsStated ==
  IsMultiList =>
    res.text = Joined(ValUnits, 1)
               \o (IF all_string THEN <<>> ELSE <<" ", "<", ".", ".", ".", ">">>)

\* C2, amended: such a list is written as the strings joined by "<>" and
\* nothing more, with -s and without it (A,0,B,0,0 gives A<>B both ways).
C2_MultiSzJoined ==
  /\ IsMultiList => res.rule = 6 /\ res.text = Joined(ValUnits, 1)
  /\ (Interpreted /\ res.type = Std(REG_MULTI_SZ) /\ ~val.inline
      /\ ValUnits = <<65, 0, 66, 0, 0>>)
       => res.text = <<"A", "<", ">", "B">>

C2_Witness ==
  /\ IsMultiList
  /\ ValUnits = <<65, 0, 66, 0, 0>>
  /\ ~all_string
  /\ res.text = <<"A", "<", ">", "B">>

\* What the value would give with its raw type replaced by REG_DWORD
AsDword ==
  Interpret([val EXCEPT !.value_type = Std(REG_DWORD)], properties,
            driverpackages, all_string, CharIsSigned)

\* C3, as stated: under "Properties" a value of raw type 0xFFFF0004 and size 4
\* gets the effective type DWORD and is written as "0x<hex> (<decimal>)", as a
\* DWORD of the same bytes is.
C3_AsStated ==
  (Interpreted /\ properties /\ val.size = 4
   /\ val.value_type = [hi |-> 65535, lo |-> 4])
    => /\ res.type = Std(REG_DWORD)
       /\ res.rule = 1
       /\ res.text = AsDword.text

\* C3, amended: under "Properties" a value of raw type 0xFFFF0006 (device
\* INT32) and size 4 gets the effective type DWORD and is written by the first
\* branch as "0x<hex> (<signed decimal>)", as a DWORD of the same bytes is.
C3_Int32AsDword ==
  (Interpreted /\ properties /\ val.size = 4
   /\ val.value_type = [hi |-> 65535, lo |-> 6])
    => /\ res.type = Std(REG_DWORD)
       /\ res.rule = 1
       /\ AsDword.rule = 1
       /\ res.text = AsDword.text
       /\ ValData = <<255, 255, 255, 255>>
            => res.text = <<"0", "x", "F", "F", "F", "F", "F", "F", "F", "F",
                            " ", "(", "-", "1", ")">>
       /\ ValData = <<65, 0, 0, 0>>
            => res.text = <<"0", "x", "4", "1", " ", "(", "6", "5", ")">>

C3_Witness ==
  /\ Interpreted
  /\ properties
  /\ val.value_type = [hi |-> 65535, lo |-> 6]
  /\ val.size = 4
  /\ ValData = <<255, 255, 255, 255>>
  /\ res.rule = 1
  /\ res.text = AsDword.text

\* The device-property table of the documentation
DeviceMapped(lo) ==
  IF lo \in {6, 7} THEN Std(4)
  ELSE IF lo \in {8, 9, 16} THEN Std(11)
  ELSE IF lo \in {18, 25} THEN Std(1)
  ELSE IF lo = 8210 THEN Std(7)
  ELSE [hi |-> 65535, lo |-> lo]

\* C4: the effective type comes from one scope only.  Under "Properties" a raw
\* type with the high word 0xFFFF goes through the device table (codes not in
\* it unchanged) and is not masked even under "DriverPackages"; otherwise under
\* "DriverPackages" it is the low word of the raw type; otherwise the raw type.
C4_OneScope ==
  Interpreted =>
    LET t == val.value_type
    IN /\ (properties /\ t.hi = 65535) => res.type = DeviceMapped(t.lo)
       /\ (~(properties /\ t.hi = 65535) /\ driverpackages)
            => res.type = [hi |-> 0, lo |-> t.lo]
       /\ (~(properties /\ t.hi = 65535) /\ ~driverpackages) => res.type = t
       /\ (driverpackages /\ ~properties /\ t = [hi |-> 1, lo |-> 1])
            => res.type = Std(REG_SZ)

C4_Witness ==
  /\ Interpreted
  /\ properties
  /\ driverpackages
  /\ val.value_type = [hi |-> 65535, lo |-> 17]
  /\ res.type = val.value_type

\* a <= b for decimal digit sequences without leading zeros
DecLeq(a, b) ==
  \/ Len(a) < Len(b)
  \/ Len(a) = Len(b) /\ (a = b \/ LexLess(a, b))

\* 126227808000000000 <= v < 157784544000000000 for the 8 data bytes read as
\* a signed number, decided on its decimal digits
TicksInCentury ==
  LET q == SubSeq(ValData, 1, 8)
      dec == Rebase(Reverse(q), 256, 10)
  IN /\ q[8] < 128
     /\ DecLeq(FILETIME_2001, dec)
     /\ ~DecLeq(FILETIME_2101, dec)

\* C5: an 8-byte value of effective type QWORD, BINARY or NONE is written as
\* a date exactly when 126227808000000000 <= v < 157784544000000000; when it
\* is, the date comes before the QWORD branch and both text branches.
C5_FiletimeRange ==
  (Interpreted /\ val.size = 8 /\ ~val.inline
   /\ res.type \in {Std(REG_QWORD), Std(REG_BINARY), Std(REG_NONE)})
    => /\ res.rule = 4 <=> TicksInCentury
       /\ res.rule = 4 => Head(res.text) = "{localtime}"
       /\ ValData = <<0, 192, 157, 200, 133, 115, 192, 1>> => res.rule = 4
       /\ ValData = <<255, 191, 157, 200, 133, 115, 192, 1>> => res.rule # 4
       /\ ValData = <<0, 192, 42, 240, 52, 144, 48, 2>> => res.rule # 4
       /\ ValData = <<255, 191, 42, 240, 52, 144, 48, 2>> => res.rule = 4

C5_Witness ==
  /\ Interpreted
  /\ val.size = 8
  /\ res.type = Std(REG_BINARY)
  /\ res.bintext = 16
  /\ TicksInCentury
  /\ res.rule = 4

\* The printable ones among the floor(size/2) units, and among the bytes
PrintableUnits ==
  Cardinality({i \in 0..(val.size \div 2 - 1) : IsPrint(Unit(ValData, i))})

PrintableBytes ==
  Cardinality({i \in 1..val.size : IsPrint(ValData[i])})

IsBinary ==
  /\ Interpreted
  /\ res.type \in {Std(REG_BINARY), Std(REG_NONE)}
  /\ val.size >= 8
  /\ ~val.inline

Utf16Start ==
  /\ ValData[2] = 0
  /\ ValData[4] = 0
  /\ IsPrint(Unit(ValData, 0))
  /\ IsPrint(Unit(ValData, 1))

AsciiStart == IsPrint(ValData[1]) /\ IsPrint(ValData[2])

LeafKids(cell) ==
  [i \in 1..cell.count |->
     IF cell.block_type = <<"l", "i">> THEN cell.offsets[i]
     ELSE cell.offsets[2 * i - 1]]

RECURSIVE RiKids(_, _, _)
RiKids(h, item, i) ==
  IF i > item.count THEN <<>>
  ELSE LeafKids(h.lists[item.offsets[i]]) \o RiKids(h, item, i + 1)

\* The subkeys of key k, in stored order
KidsIn(h, k) ==
  IF h.keys[k].subkeys = -1 THEN <<>>
  ELSE LET item == h.lists[h.keys[k].subkeys]
       IN IF item.block_type = <<"r", "i">> THEN RiKids(h, item, 1)
          ELSE LeafKids(item)

ParentOf(h, k) ==
  CHOOSE p \in DOMAIN h.keys : \E i \in 1..Len(KidsIn(h, p)) : KidsIn(h, p)[i] = k

\* The names from the root down to key k
RECURSIVE PathNames(_, _)
PathNames(h, k) ==
  IF k = h.root_cell_offset THEN <<h.keys[k].name>>
  ELSE Append(PathNames(h, ParentOf(h, k)), h.keys[k].name)

\* The keys under k, k first, each key before its subkeys, subkeys in order
RECURSIVE Preorder(_, _)
RECURSIVE PreorderEach(_, _, _)
Preorder(h, k) == <<k>> \o PreorderEach(h, KidsIn(h, k), 1)
PreorderEach(h, kids, i) ==
  IF i > Len(kids) THEN <<>>
  ELSE Preorder(h, kids[i]) \o PreorderEach(h, kids, i + 1)

WalkDone == stack = <<>>

LinesOf(k) == SelectSeq(out, LAMBDA l : l.key = k)

KeyLine(kind, k) ==
  [kind |-> kind, key |-> k, path |-> PathNames(hive, k), text |-> <<>>]

IsEmptyKey(k) == hive.keys[k].value_count = 0 /\ KidsIn(hive, k) = <<>>

\* C1: without -k and -v a key with no values and no subkeys (subkey offset
\* -1, or a list of count 0) gives exactly one line, the empty-key line with
\* its full path; with -v (and no -k) it gives no line; a key with a value or
\* a subkey never gives an empty-key line.
C1_EmptyKeyLine ==
  \A k \in DOMAIN hive.keys :
    /\ (WalkDone /\ ~only_keys /\ ~only_values /\ IsEmptyKey(k))
         => LinesOf(k) = <<KeyLine("empty", k)>>
    /\ (~only_keys /\ IsEmptyKey(k)) => Len(LinesOf(k)) <= 1
    /\ (~only_keys /\ only_values /\ IsEmptyKey(k)) => LinesOf(k) = <<>>
    /\ ~IsEmptyKey(k)
         => \A n \in 1..Len(out) : ~(out[n].key = k /\ out[n].kind = "empty")

C1_Witness ==
  /\ WalkDone
  /\ ~only_keys
  /\ ~only_values
  /\ \E k \in DOMAIN hive.keys :
       /\ IsEmptyKey(k)
       /\ hive.keys[k].subkeys # -1
       /\ Len(PathNames(hive, k)) = 3
       /\ LinesOf(k) = <<KeyLine("empty", k)>>
  /\ \E k \in DOMAIN hive.keys :
       /\ hive.keys[k].value_count = 0
       /\ KidsIn(hive, k) # <<>>
       /\ LinesOf(k) = <<>>

NamedOnPath(name, len) ==
  \E n \in 1..Len(stack) :
    KeyAt(hive, stack[n].key).len = len /\ KeyAt(hive, stack[n].key).name = name

\* While the values of the key on top are processed, each flag is set exactly
\* when that key or a key above it on the path has the flag's name; after
\* the walk both are clear.
ScopeMatchesPath ==
  /\ (stack # <<>> /\ Top.pc = "values")
       => /\ properties <=> NamedOnPath("Properties", 10)
          /\ driverpackages <=> NamedOnPath("DriverPackages", 14)
  /\ WalkDone => ~properties /\ ~driverpackages

\* A flag goes up in the entry of a call on a key of its name, which notes it
\* in leave_key; it goes down only in the return of the call that noted it.
ScopeStep ==
  /\ (~properties /\ properties')
       => /\ Len(stack') = Len(stack)
          /\ stack'[Len(stack')].leave_key = "properties"
          /\ KeyAt(hive, Top.key).name = "Properties"
  /\ (~driverpackages /\ driverpackages')
       => /\ Len(stack') = Len(stack)
          /\ stack'[Len(stack')].leave_key = "driverpackages"
          /\ KeyAt(hive, Top.key).name = "DriverPackages"
  /\ (properties /\ ~properties')
       => /\ stack' = SubSeq(stack, 1, Len(stack) - 1)
          /\ Top.leave_key = "properties"
  /\ (driverpackages /\ ~driverpackages')
       => /\ stack' = SubSeq(stack, 1, Len(stack) - 1)
          /\ Top.leave_key = "driverpackages"
  /\ (stack # <<>> /\ Len(stack') = Len(stack) /\ Top.pc # "enter")
       => stack'[Len(stack')].leave_key = Top.leave_key

\* C7: without -k, while the values of a key K are processed the
\* device-property flag is set iff K or a key above it on the path is named
\* "Properties" (10 bytes) and the driver-package flag iff K or a key above it
\* is named "DriverPackages" (14 bytes), however such keys nest or repeat; a
\* flag is cleared only by the call that set it; after the walk both are clear.
C7_ScopeFlags == [](ScopeMatchesPath) /\ [][ScopeStep]_vars

C7_Witness ==
  /\ Len(stack) = 3
  /\ Top.pc = "values"
  /\ Top.leave_key = "driverpackages"
  /\ KeyAt(hive, stack[1].key).name = "Properties"
  /\ KeyAt(hive, stack[2].key).name = "Properties"
  /\ KeyAt(hive, Top.key).name = "DriverPackages"
  /\ stack[1].leave_key = "properties"
  /\ stack[2].leave_key = "NULL"
  /\ properties
  /\ driverpackages

IsPrefix(a, b) == Len(a) <= Len(b) /\ a = SubSeq(b, 1, Len(a))

KeyLines ==
  LET order == Preorder(hive, hive.root_cell_offset)
  IN [n \in 1..Len(order) |-> KeyLine("key", order[n])]

\* C8: with -k the walk writes one line per key and no other line: the key's
\* line on entering it, before the lines of the keys below it, subkeys in
\* stored order; no empty-key line follows, with values or subkeys or neither,
\* with -v or without.
C8_KeysOnly ==
  only_keys =>
    /\ IsPrefix(out, KeyLines)
    /\ WalkDone => out = KeyLines
    /\ \A n \in 1..Len(stack) :
         stack[n].pc # "enter" => Len(LinesOf(stack[n].key)) = 1

C8_Witness ==
  /\ WalkDone
  /\ only_keys
  /\ only_values
  /\ Len(out) = 3
  /\ out = KeyLines
  /\ \E k \in DOMAIN hive.keys : IsEmptyKey(k)
  /\ \E k \in DOMAIN hive.keys : hive.keys[k].value_count > 0

\* C9, as stated: the offset of subkey i is read from slot 2*i of an "li"
\* list and from slot i of an "lf"/"lh" list, directly or under "ri".
C9_AsStated ==
  \A n \in 1..Len(reads) :
    /\ reads[n].block_type = <<"l", "i">> => reads[n].slot = 2 * reads[n].index
    /\ reads[n].block_type \in {<<"l", "f">>, <<"l", "h">>}
         => reads[n].slot = reads[n].index

\* C9, amended: the offset of subkey i is read from slot i of an "li" list
\* and from slot 2*i of an "lf"/"lh" list, and what is read is the offset of a
\* key; the same holds for each leaf list reached through one "ri" list.
C9_ListStride ==
  \A n \in 1..Len(reads) :
    /\ reads[n].block_type = <<"l", "i">> => reads[n].slot = reads[n].index
    /\ reads[n].block_type \in {<<"l", "f">>, <<"l", "h">>}
         => reads[n].slot = 2 * reads[n].index
    /\ reads[n].block_type \in LeafTags
    /\ reads[n].got \in DOMAIN hive.keys

C9_Witness ==
  /\ WalkDone
  /\ \E n \in 1..Len(reads) :
       /\ reads[n].via_ri
       /\ reads[n].block_type = <<"l", "f">>
       /\ reads[n].index = 1
       /\ reads[n].slot = 2
       /\ reads[n].got = 3

(***************************************************************************)
(* Properties of the reassembly (checked under SpecBig).                   *)
(***************************************************************************)
\* ceil(size / 16344)
SegmentsOf(size) == (size + 16343) \div 16344

RECURSIVE SumLen(_)
SumLen(copies) ==
  IF copies = <<>> THEN 0 ELSE Head(copies).len + SumLen(Tail(copies))

\* C6: for a value with bit 31 clear, size S > 16344, in a hive of version
\* major > 1 or minor > 3, whose data cell is tagged "db" and lists
\* n = ceil(S/16344) segments: the buffer is S bytes; segment i is copied to
\* offset 16344*i; 16344 bytes are copied from each segment but the last and
\* S - 16344*(n-1) from the last; S bytes in all, none outside the buffer.
C6_Reassembly ==
  (/\ ~val.inline
   /\ val.size > 16344
   /\ (hive.major_version > 1 \/ hive.minor_version > 3)
   /\ bd.tag = <<"d", "b">>
   /\ bd.count = SegmentsOf(val.size)
   /\ bd.pc # "start")
    => /\ bd.pc \in {"copy", "done"}
       /\ bd.alloc = val.size
       /\ \A n \in 1..Len(bd.copies) :
            LET c == bd.copies[n]
            IN /\ c.seg = n - 1
               /\ c.dst = 16344 * (n - 1)
               /\ c.len = IF n < bd.count THEN 16344
                          ELSE val.size - 16344 * (bd.count - 1)
               /\ c.len > 0
               /\ c.dst + c.len <= bd.alloc
       /\ bd.pc = "done"
            => Len(bd.copies) = bd.count /\ SumLen(bd.copies) = val.size

C6_Witness ==
  /\ bd.pc = "done"
  /\ val.size = 2 * 16344 + 1
  /\ bd.count = 3
  /\ Len(bd.copies) = 3
  /\ bd.copies[3] = [dst |-> 32688, len |-> 1, seg |-> 2]
  /\ bd.alloc = 32689

====
